---- MODULE Spec2Model ----
(***************************************************************************)
(* GANlib: the Transcriptome feature store (src/src/group.rs), the         *)
(* attribute codec (src/src/utils.rs), the line parser (src/src/object.rs) *)
(* the merged file reader (src/src/treader.rs), and the specialised        *)
(* records and their factory (src/src/exon.rs, src/src/transcript.rs,      *)
(* src/src/factory.rs).                                                    *)
(*                                                                         *)
(* Rust indices are 0-based; TLA+ sequences are 1-based, so the record     *)
(* with arena index i is objects[i + 1].  Option<T> is a sequence of       *)
(* length 0 (None) or 1 (Some).                                            *)
(***************************************************************************)
EXTENDS Integers, Sequences, FiniteSets, TLC

\* ------------------------------------------------------------------ bounds
MaxObjects == 3
MaxFinalize == 2
MaxReaders == 2
MaxFnames == 3
MaxLines == 3
MaxSegs == 3
MaxChildren == 2
MaxMoves == 2
MaxExons == 2

\* ------------------------------------------------------------------ Option
None == << >>
Some(x) == << x >>
IsSome(o) == Len(o) = 1
Unwrap(o) == o[1]

Range(s) == { s[i] : i \in 1..Len(s) }

\* ------------------------------------------------------------- text lines
\* One line of a GTF/GFF file.  kind: "comment" (starts with '#'), "blank"
\* (empty) or "data" (anything else).  A data line has ncols tab-separated
\* columns; seqid, ftype, start, end, strand and attr are columns 1, 3, 4, 5,
\* 7 and 9, each as its text.  attr is the 9th column as its ';'-separated
\* segments, each [key, sep, val, quoted]: `key=val` (sep "="), `key "val"`
\* (sep " ", quoted), `key val` (sep " ", not quoted) or a bare token
\* (sep "").  Keys and values hold no '=', ' ', ';' or '"' themselves.
Seg(k, s, v, q) == [key |-> k, sep |-> s, val |-> v, quoted |-> q]
Gtf(k, v) == Seg(k, " ", v, TRUE)
Gff(k, v) == Seg(k, "=", v, FALSE)

Comment == [kind |-> "comment"]
Blank == [kind |-> "blank"]
Data(n, sq, ty, st, en, sd, at) ==
    [kind |-> "data", ncols |-> n, seqid |-> sq, ftype |-> ty, start |-> st,
     end |-> en, strand |-> sd, attr |-> at]

\* ------------------------------------------------------------- utils.rs
Types == {"Gene", "Transcript", "Exon", "CDS", "UTR", "Intron", "Intergenic",
          "Other", "Unknown"}

\* str::to_lowercase on the keys and type names that occur
ToLowercase(s) ==
    CASE s = "ID" -> "id"
      [] s = "Parent" -> "parent"
      [] s = "Name" -> "name"
      [] s = "Transcript" -> "transcript"
      [] s = "mRNA" -> "mrna"
      [] s = "CDS" -> "cds"
      [] s = "UTR" -> "utr"
      [] s = "Gene" -> "gene"
      [] s = "EXON" -> "exon"
      [] s = "Intron" -> "intron"
      [] s = "Gene_ID" -> "gene_id"
      [] OTHER -> s

\* HashMap::insert: the later value replaces the earlier one
MapInsert(m, k, v) == [x \in DOMAIN m \cup {k} |-> IF x = k THEN v ELSE m[x]]
EmptyMap == [x \in {} |-> ""]

\* the text of a segment's value as it stands in the line
RawVal(seg) == IF seg.quoted THEN "\"" \o seg.val \o "\"" ELSE seg.val

RECURSIVE ExtractFrom(_, _, _)
ExtractFrom(attr, is_gff, attrs) ==
    IF attr = << >> THEN attrs
    ELSE LET seg == Head(attr)
             next == IF is_gff
                     THEN \* pair.split_once('=')
                          IF seg.sep = "="
                          THEN MapInsert(attrs, ToLowercase(seg.key), RawVal(seg))
                          ELSE attrs
                     ELSE \* pair.splitn(2, ' '), value.trim_matches('"')
                          IF seg.sep = " "
                          THEN MapInsert(attrs, ToLowercase(seg.key), seg.val)
                          ELSE attrs
         IN ExtractFrom(Tail(attr), is_gff, next)

\* extract_attributes that takes the GTF branch whatever the flag
extract_attributes_gtf_only(attr, is_gff) == ExtractFrom(attr, FALSE, EmptyMap)

extract_attributes(attr, is_gff) == ExtractFrom(attr, is_gff, EmptyMap)

MapGet(attrs, key) == IF key \in DOMAIN attrs THEN Some(attrs[key]) ELSE None

extract_id(attrs, feature_type, is_gff) ==
    IF is_gff THEN MapGet(attrs, "id")
    ELSE CASE feature_type = "Gene" -> MapGet(attrs, "gene_id")
           [] feature_type = "Transcript" -> MapGet(attrs, "transcript_id")
           [] OTHER -> None

\* extract_parent_id whose GTF Transcript arm reads transcript_id
extract_parent_id_own_key(attrs, feature_type, is_gff) ==
    IF is_gff THEN MapGet(attrs, "parent")
    ELSE CASE feature_type = "Gene" -> None
           [] OTHER -> MapGet(attrs, "transcript_id")

extract_parent_id(attrs, feature_type, is_gff) ==
    IF is_gff THEN MapGet(attrs, "parent")
    ELSE CASE feature_type = "Gene" -> None
           [] feature_type = "Transcript" -> MapGet(attrs, "gene_id")
           [] OTHER -> MapGet(attrs, "transcript_id")

\* ------------------------------------------------------------- object.rs
\* the match without the "mrna" arm
TypeOf_no_mrna(ftype) ==
    LET t == ToLowercase(ftype) IN
    CASE t = "gene" -> "Gene"
      [] t = "transcript" -> "Transcript"
      [] t = "exon" -> "Exon"
      [] t = "cds" -> "CDS"
      [] t = "utr" -> "UTR"
      [] t = "intron" -> "Intron"
      [] t = "intergenic" -> "Intergenic"
      [] OTHER -> "Unknown"

\* the match on lcs[2].to_lowercase()
TypeOf(ftype) ==
    LET t == ToLowercase(ftype) IN
    CASE t = "gene" -> "Gene"
      [] t = "transcript" -> "Transcript"
      [] t = "mrna" -> "Transcript"
      [] t = "exon" -> "Exon"
      [] t = "cds" -> "CDS"
      [] t = "utr" -> "UTR"
      [] t = "intron" -> "Intron"
      [] t = "intergenic" -> "Intergenic"
      [] OTHER -> "Unknown"

\* str::parse::<usize> on the coordinate texts that occur: Some(n), or None
\* for the Err
ParseUsize(text) ==
    CASE text = "1" -> Some(1)
      [] text = "10" -> Some(10)
      [] text = "20" -> Some(20)
      [] text = "50" -> Some(50)
      [] text = "80" -> Some(80)
      [] text = "100" -> Some(100)
      [] OTHER -> None

\* lcs[6].chars().next(): Some(first char), or None for an empty column
FirstChar(text) ==
    CASE text = "" -> None
      [] text = "+-" -> Some("+")
      [] OTHER -> Some(text)        \* a column of one character

\* Interval::new(start..end): Some(<<start, end>>), or None for the Err when
\* end < start
IntervalNew(start, end) == IF end >= start THEN Some(<<start, end>>) ELSE None

\* an Err whose message does not carry the line
InvalidColumns_no_text(line) == [status |-> "err", line |-> None]

\* the Err of try_from: the message is built from the line
InvalidColumns(line) == [status |-> "err", line |-> Some(line)]

\* GffObject::try_from: [status |-> "ok", obj |-> ...], "err" (the Err value
\* for a wrong column count) or "panic" (an unwrap() on a bad coordinate, on
\* start > end, or on an empty strand column).
\* ParseOk: the arguments name what try_from has computed when it returns
\* Ok(obj)
ParseOk(line, ty, attrs, interval, is_gff) ==
    [status |-> "ok",
     obj |-> [id |-> None,
              seqid |-> line.seqid,
              strand |-> Unwrap(FirstChar(line.strand)),
              g_type |-> ty,
              start |-> interval[1],
              end |-> interval[2],
              attrs |-> attrs,
              id_str |-> extract_id(attrs, ty, is_gff),
              parent_id_str |-> extract_parent_id(attrs, ty, is_gff),
              children |-> << >>]]

\* try_from on a 9-column line whose coordinates have been parsed to the
\* Options start and end
ParseCoords(line, start, end, is_gff) ==
    IF start = None \/ end = None THEN [status |-> "panic"]
    ELSE IF IntervalNew(Unwrap(start), Unwrap(end)) = None THEN [status |-> "panic"]
    ELSE IF FirstChar(line.strand) = None THEN [status |-> "panic"]
    ELSE ParseOk(line, TypeOf(line.ftype), extract_attributes(line.attr, is_gff),
                 Unwrap(IntervalNew(Unwrap(start), Unwrap(end))), is_gff)

Parse(line, is_gff) ==
    IF line.kind # "data" THEN InvalidColumns(line)    \* one column, not 9
    ELSE IF line.ncols # 9 THEN InvalidColumns(line)
    ELSE ParseCoords(line, ParseUsize(line.start), ParseUsize(line.end), is_gff)

\* ------------------------------------------------------------ the inputs
GtfTest == << Gtf("gene_id", "test"), Gtf("transcript_id", "test") >>

\* the two lines of group.rs test_from_file
TxGtf == Data(9, "chr1", "transcript", "1", "100", "+", GtfTest)
ExGtf == Data(9, "chr1", "exon", "1", "100", "+", GtfTest)
\* an exon whose transcript is not in the store
ExMissing == Data(9, "chr1", "exon", "50", "100", "+",
                  << Gtf("transcript_id", "missing") >>)
\* a second transcript "test", of gene g1, further right
Tx2Gtf == Data(9, "chr1", "transcript", "20", "80", "+",
               << Gtf("transcript_id", "test"), Gtf("gene_id", "g1") >>)
\* the lines of treader.rs test_treader_iterator_behavior
TxGff == Data(9, "chr1", "transcript", "1", "100", "+", << Gff("ID", "test") >>)
ExGff == Data(9, "chr1", "exon", "10", "20", "+",
              << Gff("ID", "e1"), Gff("Parent", "test") >>)
\* treader.rs test_streader_with_invalid_format
FiveCols == Data(5, "invalid", "without", "nine", "columns", "", << >>)

\* what add_object is called with: a parsed line and the dialect flag passed
\* to GffObject::new
InputLines == { <<TxGtf, FALSE>>, <<ExGtf, FALSE>>, <<ExMissing, FALSE>>,
                <<ExGff, TRUE>> }

\* the files on disk, by name; "nofile" does not exist
Files ==
    [ gtf |-> << Comment, Tx2Gtf, ExGtf >>,
      gff |-> << Comment, Comment, TxGff, ExGff >>,
      test_from_file |-> << Comment, Comment, TxGtf, ExGtf >>,
      blank |-> << TxGff, Blank, ExGff >>,
      badline |-> << TxGff, FiveCols, ExGff >>,
      invalid |-> << FiveCols >> ]
FileNames == DOMAIN Files \cup {"nofile"}

\* ------------------------------------------------------------ treader.rs
\* lcs[8].starts_with("ID=") and lcs[8].starts_with("transcript_id")
StartsWithIdEq(attr) == attr # << >> /\ attr[1].key = "ID" /\ attr[1].sep = "="
StartsWithTranscriptId(attr) == attr # << >> /\ attr[1].key = "transcript_id"

\* STReader::_set_gff, the scan from line i on: Some(is_gff) or None
RECURSIVE SetGffFrom(_, _)
SetGffFrom(lines, i) ==
    IF i > Len(lines) THEN None
    ELSE LET line == lines[i] IN
         IF line.kind = "comment" THEN SetGffFrom(lines, i + 1)
         ELSE IF line.kind = "blank" THEN None          \* lcs.len() = 1
         ELSE IF line.ncols # 9 THEN None
         ELSE IF line.ftype \notin {"transcript", "exon", "CDS"} THEN None
         ELSE IF line.ftype = "transcript"
              THEN IF StartsWithIdEq(line.attr) THEN Some(TRUE)
                   ELSE IF StartsWithTranscriptId(line.attr) THEN Some(FALSE)
                   ELSE None
         ELSE SetGffFrom(lines, i + 1)

_set_gff(lines) == SetGffFrom(lines, 1)

\* STReader::new: File::open, then _set_gff (which rewinds): Some(reader), or
\* None for the Err
STReaderNew(fname) ==
    IF fname \notin DOMAIN Files THEN None
    ELSE LET g == _set_gff(Files[fname]) IN
         IF IsSome(g)
         THEN Some([fname |-> fname, pos |-> 0, is_gff |-> Unwrap(g)])
         ELSE None

\* STReader::next: the index of the next line that does not start with '#'
\* (0 for None), reading on from the reader's position
RECURSIVE NextLine(_, _)
NextLine(lines, pos) ==
    IF pos >= Len(lines) THEN 0
    ELSE IF lines[pos + 1].kind = "comment" THEN NextLine(lines, pos + 1)
    ELSE pos + 1

\* n is the line read_line stops at (0 at the end of the file)
STReaderAt(reader, n, len) ==
    [line |-> n, reader |-> [reader EXCEPT !.pos = IF n = 0 THEN len ELSE n]]

STReaderNextIn(reader, lines) ==
    STReaderAt(reader, NextLine(lines, reader.pos), Len(lines))

STReaderNext(reader) == STReaderNextIn(reader, Files[reader.fname])

\* TReader::next, from reader i on: the readers as next() leaves them, and
\* what it returns: "some" with the object, "none", or "panic" when
\* GffObject::new fails.  at = <<reader, line>> names the line handed to the
\* parser.  The line is parsed in the dialect its reader detected.
RECURSIVE TNextFrom(_, _)
RECURSIVE TNextWith(_, _, _)

\* what next() returns for line `line` of reader i, parsed into p
TNextParsed(rs2, i, line, p) ==
    IF p.status = "ok"
    THEN [readers |-> rs2, status |-> "some",
          at |-> Some(<<i, line>>), obj |-> Some(p.obj)]
    ELSE [readers |-> rs2, status |-> "panic",
          at |-> Some(<<i, line>>), obj |-> None]

\* r is what reader i's next() gave
TNextWith(rs, i, r) ==
    IF r.line = 0 THEN TNextFrom([rs EXCEPT ![i] = r.reader], i + 1)
    ELSE TNextParsed([rs EXCEPT ![i] = r.reader], i, r.line,
                     Parse(Files[rs[i].fname][r.line], rs[i].is_gff))

TNextFrom(rs, i) ==
    IF i > Len(rs) THEN [readers |-> rs, status |-> "none", at |-> None, obj |-> None]
    ELSE TNextWith(rs, i, STReaderNext(rs[i]))

\* the loop of _set_gff from line i on: how many lines the reader has
\* consumed when the loop breaks or runs out of lines
RECURSIVE ScanEnd(_, _)
ScanEnd(lines, i) ==
    IF i > Len(lines) THEN Len(lines)
    ELSE LET line == lines[i] IN
         IF line.kind = "comment" THEN ScanEnd(lines, i + 1)
         ELSE IF line.kind = "blank" THEN i
         ELSE IF line.ncols # 9 THEN i
         ELSE IF line.ftype \notin {"transcript", "exon", "CDS"} THEN i
         ELSE IF line.ftype = "transcript" THEN i
         ELSE ScanEnd(lines, i + 1)

\* _set_gff without `self.reader.rewind().unwrap()`
rewind_missing(pos) == pos

\* BufReader::rewind: the position is the start of the file
rewind(pos) == 0

\* the STReader struct as new() builds it before detection
STReaderStruct(lines) == [lines |-> lines, pos |-> 0, is_gff |-> None]

\* _set_gff on the struct: the struct as it leaves it, and Ok / Err
set_gff(r) ==
    LET gff_result == _set_gff(r.lines) IN
    [reader |-> [r EXCEPT !.pos = rewind(ScanEnd(r.lines, 1)),
                          !.is_gff = IF IsSome(gff_result) THEN gff_result ELSE @],
     ok |-> IsSome(gff_result)]

\* STReader::next on the struct
st_next(r) == STReaderNextIn(r, r.lines)

\* every line STReader::next returns when read from pos to the end of file
RECURSIVE ReadAll(_, _)
ReadAll(lines, pos) ==
    LET n == NextLine(lines, pos) IN
    IF n = 0 THEN << >> ELSE << lines[n] >> \o ReadAll(lines, n)

\* utils.rs attr_is_gff ----------------------------------------------------
\* attrs.trim().trim_end_matches(';').split(';'): an empty column splits
\* into one empty segment
Segments(attr) == IF attr = << >> THEN << Seg("", "", "", FALSE) >> ELSE attr

\* attr_is_gff: Some(TRUE) for GFF, Some(FALSE) for GTF, None for the Err
attr_is_gff(attr) ==
    LET attrs_vec == Segments(attr)
        is_gff == /\ \E i \in 1..Len(attrs_vec) :
                        attrs_vec[i].sep = "=" /\ attrs_vec[i].key \in {"ID", "Parent"}
                  /\ \A i \in 1..Len(attrs_vec) : attrs_vec[i].sep = "="
        is_gtf == \A i \in 1..Len(attrs_vec) :
                     attrs_vec[i].sep = " " /\ attrs_vec[i].quoted
    IN IF is_gff THEN Some(TRUE)
       ELSE IF is_gtf THEN Some(FALSE)
       ELSE None

\* ----------------------------------------------------------------- state
VARIABLES
    objects,       \* Transcriptome.objects: the entries of the interval tree, in array order
    tree_indexed,  \* the interval tree's own flag: index() has run since the last insert
    id_map,        \* Transcriptome.id_map: id_str -> index
    is_indexed,    \* Transcriptome.is_indexed
    indexed_len,   \* the number of entries the last index() was built over (None: never built)
    n_finalize,    \* how many times finalize has run
    fnames,        \* TReader.fnames
    readers,       \* TReader.readers: [fname, pos, is_gff]
    parsed,        \* the lines TReader::next has handed to GffObject::new, as <<reader, line>>
    yielded,       \* the lines TReader::next has returned as objects, as <<reader, line>>
    streader,      \* a single STReader on its own: None, or Some([lines, pos, is_gff])
    got,           \* the lines that STReader's next() has returned
    heap,          \* the memory cells a GffObject has lived in: [obj, live]
    parent_at,     \* the address of the cell the GffObject lives in now
    ret            \* the last call and what it returned: [op, status, val]

vars == << objects, tree_indexed, id_map, is_indexed, indexed_len, n_finalize,
           fnames, readers, parsed, yielded, streader, got, heap, parent_at, ret >>
storeVars == << objects, tree_indexed, id_map, is_indexed, indexed_len, n_finalize >>
readerVars == << fnames, readers, parsed, yielded >>
detectVars == << streader, got >>
parentVars == << heap, parent_at >>

Ret(op, status, val) == [op |-> op, status |-> status, val |-> val]
Panicked == ret.status = "panic"

\* the store as one value
Store == [objects |-> objects, tree_indexed |-> tree_indexed, id_map |-> id_map,
          is_indexed |-> is_indexed, indexed_len |-> indexed_len]
SetStore(st) ==
    /\ objects' = st.objects
    /\ tree_indexed' = st.tree_indexed
    /\ id_map' = st.id_map
    /\ is_indexed' = st.is_indexed
    /\ indexed_len' = st.indexed_len

\* ------------------------------------------- bio: ArrayBackedIntervalTree
\* insert: push the entry, clear the flag; the entry's index is len() - 1
TreeInsert(entries, obj) == Append(entries, obj)

\* get / get_mut: an Option
TreeGet(entries, oid) == IF oid < Len(entries) THEN Some(entries[oid + 1]) ELSE None

\* index: the implicit tree lies over the array itself, sorted in place by
\* interval start (a stable sort); Transcript::finalize relies on that order
\* when it takes first() and last() right after index()
RECURSIVE InsertByStart(_, _)
InsertByStart(sorted, x) ==
    IF sorted = << >> THEN << x >>
    ELSE IF x.start < sorted[Len(sorted)].start
         THEN Append(InsertByStart(SubSeq(sorted, 1, Len(sorted) - 1), x),
                     sorted[Len(sorted)])
         ELSE Append(sorted, x)

RECURSIVE SortByStart(_)
SortByStart(entries) ==
    IF entries = << >> THEN << >>
    ELSE InsertByStart(SortByStart(SubSeq(entries, 1, Len(entries) - 1)),
                       entries[Len(entries)])

TreeIndex(entries) == SortByStart(entries)

\* find: the ids of the entries that overlap [qs, qe)
TreeFind(entries, qs, qe) ==
    SelectSeq(entries, LAMBDA e : e.start < qe /\ qs < e.end)

\* --------------------------------------------------------------- group.rs
\* Transcriptome::new
new == [objects |-> << >>, tree_indexed |-> FALSE, id_map |-> EmptyMap,
        is_indexed |-> FALSE, indexed_len |-> None]

\* add_object with an id_map that keeps the first index of an identity
add_object_first_wins(st, obj) ==
    LET oid == Len(st.objects)
        stored == [obj EXCEPT !.id = Some(oid)]
    IN [st EXCEPT !.is_indexed = FALSE,
                  !.objects = Append(@, stored),
                  !.tree_indexed = FALSE,
                  !.id_map = IF IsSome(stored.id_str)
                                /\ Unwrap(stored.id_str) \notin DOMAIN @
                             THEN MapInsert(@, Unwrap(stored.id_str), oid)
                             ELSE @]

\* add_object without the line that clears is_indexed
add_object_keeps_flag(st, obj) ==
    LET oid == Len(st.objects)
        stored == [obj EXCEPT !.id = Some(oid)]
    IN [st EXCEPT !.objects = Append(@, stored),
                  !.tree_indexed = FALSE,
                  !.id_map = IF IsSome(stored.id_str)
                             THEN MapInsert(@, Unwrap(stored.id_str), oid)
                             ELSE @]

\* Transcriptome::add_object; the index it returns is Len(st.objects)
add_object(st, obj) ==
    LET oid == Len(st.objects)
        stored == [obj EXCEPT !.id = Some(oid)]
    IN [st EXCEPT !.is_indexed = FALSE,
                  !.objects = TreeInsert(@, stored),
                  !.tree_indexed = FALSE,
                  !.id_map = IF IsSome(stored.id_str)
                             THEN MapInsert(@, Unwrap(stored.id_str), oid)
                             ELSE @]

\* Transcriptome::index
index(st) ==
    [st EXCEPT !.objects = TreeIndex(@),
               !.tree_indexed = TRUE,
               !.is_indexed = TRUE,
               !.indexed_len = Some(Len(st.objects))]

\* GffObject::add_child(&child): the child's index is appended to children
add_child(parent_obj, child_obj) ==
    [parent_obj EXCEPT !.children = Append(@, Unwrap(child_obj.id))]

\* the collect pass with each edge put in front of the ones found before
RECURSIVE Collect_newest_first(_, _, _)
Collect_newest_first(entries, map, i) ==
    IF i > Len(entries) THEN << >>
    ELSE LET obj == entries[i]
             rest == Collect_newest_first(entries, map, i + 1)
         IN IF IsSome(obj.parent_id_str) /\ Unwrap(obj.parent_id_str) \in DOMAIN map
            THEN rest \o << <<map[Unwrap(obj.parent_id_str)], obj>> >>
            ELSE rest

\* finalize, the collect pass: hierarchy_updates, as <<parent_oid, child>>,
\* in the order the tree iterates
RECURSIVE Collect(_, _, _)
Collect(entries, map, i) ==
    IF i > Len(entries) THEN << >>
    ELSE LET obj == entries[i]
             rest == Collect(entries, map, i + 1)
         IN IF IsSome(obj.parent_id_str) /\ Unwrap(obj.parent_id_str) \in DOMAIN map
            THEN << <<map[Unwrap(obj.parent_id_str)], obj>> >> \o rest
            ELSE rest

\* finalize, the apply pass: the entries after the updates, and whether it
\* ran into Err("Parent object not found")
RECURSIVE Apply(_, _)
Apply(entries, updates) ==
    IF updates = << >> THEN [objects |-> entries, ok |-> TRUE]
    ELSE LET parent_id == Head(updates)[1]
             child_obj == Head(updates)[2]
         IN IF IsSome(TreeGet(entries, parent_id))
            THEN Apply([entries EXCEPT ![parent_id + 1] = add_child(@, child_obj)],
                       Tail(updates))
            ELSE [objects |-> entries, ok |-> FALSE]

\* finalize that also clears is_indexed
finalize_clears_flag(st) ==
    LET a == Apply(st.objects, Collect(st.objects, st.id_map, 1))
    IN [st |-> [st EXCEPT !.objects = a.objects, !.is_indexed = FALSE], ok |-> a.ok]

\* Transcriptome::finalize: the store after it and its Result
finalize(st) ==
    IF \E i \in 1..Len(st.objects) : st.objects[i].id = None
    THEN [st |-> st, ok |-> FALSE]
    ELSE LET a == Apply(st.objects, Collect(st.objects, st.id_map, 1))
         IN [st |-> [st EXCEPT !.objects = a.objects], ok |-> a.ok]

\* Transcriptome::reset_intervals: the body holds comments only
reset_intervals(st) == st

\* the loop of from_file / add_from_file: reader.next() until None, each
\* object into add_object
RECURSIVE Drain(_, _)
RECURSIVE DrainWith(_, _)

\* r is what reader.next() gave
DrainWith(st, r) ==
    IF r.status = "none" THEN [st |-> st, status |-> "ok"]
    ELSE IF r.status = "panic" THEN [st |-> st, status |-> "panic"]
    ELSE Drain(add_object(st, Unwrap(r.obj)), r.readers)

Drain(st, rs) == DrainWith(st, TNextFrom(rs, 1))

\* after the loop: is_indexed = false
ReadDone(d) ==
    IF d.status = "ok"
    THEN [st |-> [d.st EXCEPT !.is_indexed = FALSE], status |-> "ok"]
    ELSE d

\* sr is what STReader::new gave
ReadWith(st, sr) ==
    IF sr = None THEN [st |-> st, status |-> "err"]
    ELSE ReadDone(Drain(st, << Unwrap(sr) >>))

\* TReader::new(Some(fname)) and the loop; "err" when the reader cannot be made
ReadInto(st, fname) == ReadWith(st, STReaderNew(fname))

from_file(fname) == ReadInto(new, fname)
add_from_file(st, fname) == ReadInto(st, fname)

\* the lines of a file that STReader::next returns
NonComment(fname) ==
    IF fname \in DOMAIN Files
    THEN SelectSeq(Files[fname], LAMBDA l : l.kind # "comment")
    ELSE << >>

\* Transcriptome::get and get_mut: Some(self.objects.get(oid).unwrap())
get(st, oid) ==
    LET o == TreeGet(st.objects, oid) IN
    IF IsSome(o) THEN [status |-> "ok", val |-> o]
    ELSE [status |-> "panic", val |-> None]

get_mut(st, oid) == get(st, oid)

\* objects().find(interval): the tree refuses a query when it is not indexed
find(st, qs, qe) ==
    IF st.tree_indexed
    THEN [status |-> "ok", val |-> TreeFind(st.objects, qs, qe)]
    ELSE [status |-> "panic", val |-> << >>]

\* the interval asked for
Queries == { <<30, 40>> }

\* the indices asked for: the first record's, and the first one out of range
Indices == { 0, Len(objects) }

\* ------------------------------------- object.rs: a record and its children
\* A GffObject lives in one memory cell at a time; heap[a] is the cell at
\* address a, [obj, live].  A move of the record copies it to a new cell and
\* leaves the old one dead: its bytes are no longer the record.
\* obj is [seqid, start, end, children, indexed, parent]; parent is the
\* Option<NonNull<GffObject>>, an address.

\* object.rs test_parent: the gene and its two exons
GeneObj == [seqid |-> "chr1", start |-> 1, end |-> 100, children |-> << >>,
            indexed |-> FALSE, parent |-> None]
ExonObjs == { [seqid |-> "chr1", start |-> 1, end |-> 25, children |-> << >>,
               indexed |-> FALSE, parent |-> None],
              [seqid |-> "chr1", start |-> 75, end |-> 100, children |-> << >>,
               indexed |-> FALSE, parent |-> None] }

\* what a dead cell may hold once another value has been written over it
Overwritten == [seqid |-> "", start |-> 0, end |-> 0, children |-> << >>,
                indexed |-> FALSE, parent |-> None]

\* ------------------------------------------------------------------ Init
Init ==
    /\ objects = new.objects
    /\ tree_indexed = new.tree_indexed
    /\ id_map = new.id_map
    /\ is_indexed = new.is_indexed
    /\ indexed_len = new.indexed_len
    /\ n_finalize = 0
    /\ fnames = << >>
    /\ readers = << >>
    /\ parsed = << >>
    /\ yielded = << >>
    /\ streader = None
    /\ got = << >>
    /\ heap = << [obj |-> GeneObj, live |-> TRUE] >>
    /\ parent_at = 1
    /\ ret = Ret("new", "ok", << >>)

\* ------------------------------------------------- the store's operations
\* add_object on the object of a line that parses
AddParsed(p) ==
    /\ p.status = "ok"
    /\ SetStore(add_object(Store, p.obj))

AddObject(in) ==
    /\ ~Panicked
    /\ Len(objects) < MaxObjects
    /\ AddParsed(Parse(in[1], in[2]))
    /\ ret' = Ret("add_object", "ok", Len(objects))
    /\ UNCHANGED << n_finalize, readerVars, detectVars, parentVars >>

Index ==
    /\ ~Panicked
    /\ SetStore(index(Store))
    /\ ret' = Ret("index", "ok", << >>)
    /\ UNCHANGED << n_finalize, readerVars, detectVars, parentVars >>

\* finalize leaves the store r.st; Ok(()) and the Err carry nothing
Finalized(r) ==
    /\ SetStore(r.st)
    /\ ret' = Ret("finalize", IF r.ok THEN "ok" ELSE "err", << >>)

Finalize ==
    /\ ~Panicked
    /\ n_finalize < MaxFinalize
    /\ Finalized(finalize(Store))
    /\ n_finalize' = n_finalize + 1
    /\ UNCHANGED << readerVars, detectVars, parentVars >>

ResetIntervals ==
    /\ ~Panicked
    /\ SetStore(reset_intervals(Store))
    /\ ret' = Ret("reset_intervals", "ok", << >>)
    /\ UNCHANGED << n_finalize, readerVars, detectVars, parentVars >>

Get(oid) ==
    /\ ~Panicked
    /\ LET r == get(Store, oid) IN ret' = Ret("get", r.status, r.val)
    /\ UNCHANGED << storeVars, readerVars, detectVars, parentVars >>

GetMut(oid) ==
    /\ ~Panicked
    /\ LET r == get_mut(Store, oid) IN ret' = Ret("get_mut", r.status, r.val)
    /\ UNCHANGED << storeVars, readerVars, detectVars, parentVars >>

Find(q) ==
    /\ ~Panicked
    /\ LET r == find(Store, q[1], q[2]) IN ret' = Ret("find", r.status, r.val)
    /\ UNCHANGED << storeVars, readerVars, detectVars, parentVars >>

\* from_file is a constructor: it makes the store
Constructed(r) ==
    /\ IF r.status = "ok" THEN SetStore(r.st)
       ELSE UNCHANGED << objects, tree_indexed, id_map, is_indexed, indexed_len >>
    /\ ret' = Ret("from_file", r.status, << >>)

FromFile(fname) ==
    /\ ~Panicked
    /\ ret.op = "new"
    /\ Len(NonComment(fname)) <= MaxObjects
    /\ Constructed(from_file(fname))
    /\ UNCHANGED << n_finalize, readerVars, detectVars, parentVars >>

Added(r) ==
    /\ SetStore(r.st)
    /\ ret' = Ret("add_from_file", r.status, << >>)

AddFromFile(fname) ==
    /\ ~Panicked
    /\ Len(objects) + Len(NonComment(fname)) <= MaxObjects
    /\ Added(add_from_file(Store, fname))
    /\ UNCHANGED << n_finalize, readerVars, detectVars, parentVars >>

Next ==
    \/ \E in \in InputLines : AddObject(in)
    \/ Index
    \/ Finalize
    \/ ResetIntervals
    \/ \E oid \in Indices : Get(oid)
    \/ \E oid \in Indices : GetMut(oid)
    \/ \E q \in Queries : Find(q)
    \/ \E fname \in FileNames : FromFile(fname)
    \/ \E fname \in FileNames : AddFromFile(fname)

Spec == Init /\ [][Next]_vars

\* ------------------------------------------------ the reader's operations
\* TReader::add
TReaderAdd(fname) ==
    /\ ~Panicked
    /\ Len(fnames) < MaxFnames
    /\ Len(readers) < MaxReaders
    /\ fnames' = Append(fnames, fname)
    /\ LET sr == STReaderNew(fname) IN
       IF IsSome(sr)
       THEN /\ readers' = Append(readers, Unwrap(sr))
            /\ ret' = Ret("add", "ok", << >>)
       ELSE /\ readers' = readers
            /\ ret' = Ret("add", "err", << >>)
    /\ UNCHANGED << storeVars, parsed, yielded, detectVars, parentVars >>

\* TReader::next
Yielded(r) ==
    /\ readers' = r.readers
    /\ parsed' = parsed \o r.at
    /\ yielded' = IF r.status = "some" THEN yielded \o r.at ELSE yielded
    /\ ret' = Ret("next", r.status, r.obj)

TReaderNext ==
    /\ ~Panicked
    /\ Yielded(TNextFrom(readers, 1))
    /\ UNCHANGED << storeVars, fnames, detectVars, parentVars >>

NextReader ==
    \/ \E fname \in FileNames : TReaderAdd(fname)
    \/ TReaderNext

SpecReader == Init /\ [][NextReader]_vars

\* ---------------------------------------------- one STReader on its own
\* the lines a file under detection is made of
GeneGff == Data(9, "chr1", "gene", "1", "100", "+", << Gff("ID", "g1") >>)
TxUpper == Data(9, "chr1", "Transcript", "1", "100", "+", << Gff("ID", "test") >>)
TxBare == Data(9, "chr1", "transcript", "1", "100", "+", << Seg("test", "", "", FALSE) >>)
TxShort == Data(8, "chr1", "transcript", "1", "100", "+", << >>)
DetectLines == { Comment, Blank, GeneGff, TxGff, TxGtf, Tx2Gtf, ExGff, FiveCols,
                 TxUpper, TxBare, TxShort }
DetectFiles == UNION { [1..n -> DetectLines] : n \in 0..MaxLines }

\* STReader::new up to the struct literal: the file is open, nothing is read
STOpen ==
    /\ ret.op = "new"
    /\ streader = None
    /\ \E lines \in DetectFiles : streader' = Some(STReaderStruct(lines))
    /\ got' = << >>
    /\ ret' = Ret("open", "ok", << >>)
    /\ UNCHANGED << storeVars, readerVars, parentVars >>

\* STReader::_set_gff, as new() calls it
STSetGff ==
    /\ ret.op = "open"
    /\ LET r == set_gff(Unwrap(streader)) IN
       /\ streader' = Some(r.reader)
       /\ ret' = Ret("_set_gff", IF r.ok THEN "ok" ELSE "err", << >>)
    /\ UNCHANGED << storeVars, readerVars, got, parentVars >>

\* STReader::next on the stream as _set_gff left it
STNext ==
    /\ ret.op \in {"_set_gff", "st_next"}
    /\ ret.status # "none"
    /\ LET r == st_next(Unwrap(streader)) IN
       /\ streader' = Some(r.reader)
       /\ got' = IF r.line = 0 THEN got ELSE Append(got, Unwrap(streader).lines[r.line])
       /\ ret' = Ret("st_next", IF r.line = 0 THEN "none" ELSE "some", << >>)
    /\ UNCHANGED << storeVars, readerVars, parentVars >>

NextDetect ==
    \/ STOpen
    \/ STSetGff
    \/ STNext

SpecDetect == Init /\ [][NextDetect]_vars

\* ------------------------------------------- the parser and the codec
\* GffObjectT::get_attr
get_attr(obj, key) == MapGet(obj.attrs, key)

\* the texts the columns of a parsed line are drawn from
TypeTexts == {"gene", "Gene", "transcript", "mRNA", "exon", "EXON", "CDS", "UTR",
              "Intron", "intergenic", "region"}
CoordTexts == {"1", "100", "abc"}
StrandTexts == {"+", "-", ""}
GffGene == << Gff("ID", "gene1"), Gff("Name", "GENE1") >>
GffTx == << Gff("ID", "t1"), Gff("Parent", "gene1") >>
AttrTexts == { GtfTest, GffGene, GffTx }
ParseLines ==
    { Data(n, "chr1", ty, st, en, sd, at) :
        n \in {8, 9}, ty \in TypeTexts, st \in CoordTexts, en \in CoordTexts,
        sd \in StrandTexts, at \in AttrTexts } \cup { Blank }

\* the segments a 9th column is made of, and the columns of up to MaxSegs
AttrSegs == { Gff("ID", "gene1"), Gff("Name", "GENE1"), Gtf("gene_id", "g1"),
              Gtf("transcript_id", "t1"), Gtf("Gene_ID", "g2"),
              Seg("level", " ", "2", FALSE), Seg("bare", "", "", FALSE) }
AttrColumns == UNION { [1..n -> AttrSegs] : n \in 0..MaxSegs }

\* the attribute maps identities are resolved from
IdKeys == {"id", "parent", "gene_id", "transcript_id"}
AttrMaps == { [k \in S |-> k \o "_value"] : S \in SUBSET IdKeys }

\* Each call below is made on its own, from the initial state: the functions
\* read nothing but their arguments.
\* GffObject::try_from(line)
Tried(line, is_gff, p) ==
    ret' = Ret("try_from", p.status, [line |-> line, is_gff |-> is_gff, res |-> p])

TryFrom(line, is_gff) ==
    /\ ret.op = "new"
    /\ Tried(line, is_gff, Parse(line, is_gff))
    /\ UNCHANGED << storeVars, readerVars, detectVars, parentVars >>

\* extract_attributes(attr_str, is_gff)
ExtractAttributes(attr, is_gff) ==
    /\ ret.op = "new"
    /\ ret' = Ret("extract_attributes", "ok",
                  [attr |-> attr, is_gff |-> is_gff,
                   out |-> extract_attributes(attr, is_gff)])
    /\ UNCHANGED << storeVars, readerVars, detectVars, parentVars >>

\* extract_id and extract_parent_id on one map
ExtractIds(attrs, feature_type, is_gff) ==
    /\ ret.op = "new"
    /\ ret' = Ret("extract_ids", "ok",
                  [attrs |-> attrs, feature_type |-> feature_type, is_gff |-> is_gff,
                   id |-> extract_id(attrs, feature_type, is_gff),
                   parent |-> extract_parent_id(attrs, feature_type, is_gff)])
    /\ UNCHANGED << storeVars, readerVars, detectVars, parentVars >>

\* GffObjectT::overlaps without the comparison of the seqids
overlaps_any_seqid(self, other) ==
    self.start <= other.end /\ self.end >= other.start

\* GffObjectT::overlaps and GffObjectT::contains
overlaps(self, other) ==
    /\ self.seqid = other.seqid
    /\ self.start <= other.end
    /\ self.end >= other.start

contains(self, other) ==
    /\ self.seqid = other.seqid
    /\ self.start <= other.start
    /\ self.end >= other.end

\* the records compared: every interval Interval::new accepts over the
\* coordinates of test_overlaps and test_contains, on two sequences
Seqids == {"chr1", "chr2"}
Coords == {100, 120, 150, 180, 200, 250}
Spans == { iv \in Coords \X Coords : IsSome(IntervalNew(iv[1], iv[2])) }
Features ==
    { [seqid |-> sq, start |-> Unwrap(IntervalNew(iv[1], iv[2]))[1],
       end |-> Unwrap(IntervalNew(iv[1], iv[2]))[2]] : sq \in Seqids, iv \in Spans }

\* a.overlaps(&b), b.overlaps(&a), a.contains(&b) and b.contains(&a)
OverlapsContains(a, b) ==
    /\ ret.op = "new"
    /\ ret' = Ret("overlaps", "ok",
                  [a |-> a, b |-> b,
                   a_overlaps_b |-> overlaps(a, b), b_overlaps_a |-> overlaps(b, a),
                   a_contains_b |-> contains(a, b), b_contains_a |-> contains(b, a)])
    /\ UNCHANGED << storeVars, readerVars, detectVars, parentVars >>

\* ------------------------------------ exon.rs, transcript.rs, factory.rs
\* From<GffObject> for Transcript
TranscriptFrom(gff_object) ==
    [seqid |-> gff_object.seqid,
     strand |-> gff_object.strand,
     start |-> gff_object.start,
     end |-> gff_object.end,
     exons |-> << >>,
     obj_type |-> "Exon",
     attrs |-> gff_object.attrs,
     tid |-> MapGet(gff_object.attrs, "transcript_id"),
     gid |-> MapGet(gff_object.attrs, "gene_id")]

\* From<GffObject> for Exon
ExonFrom(gff_object) ==
    [seqid |-> gff_object.seqid,
     strand |-> gff_object.strand,
     start |-> gff_object.start,
     end |-> gff_object.end,
     obj_type |-> "Exon",
     attrs |-> gff_object.attrs,
     tid |-> MapGet(gff_object.attrs, "transcript_id"),
     gid |-> MapGet(gff_object.attrs, "gene_id"),
     cds |-> None]

\* Exon::set_cds: the coding interval is kept with the exon
set_cds(exon, interval) == [exon EXCEPT !.cds = Some(interval)]

\* a Box<dyn GffObjectT>: the struct behind the trait object and its value
Boxed(struct, val) == [struct |-> struct, val |-> val]

\* GffObjectT::get_type, by the struct that implements it
get_type(boxed) ==
    CASE boxed.struct = "Transcript" -> "Transcript"
      [] boxed.struct = "Exon" -> "Transcript"
      [] OTHER -> boxed.val.g_type

\* the type the value itself stores: obj_type, or g_type for a GffObject
stored_type(boxed) ==
    IF boxed.struct = "GffObject" THEN boxed.val.g_type ELSE boxed.val.obj_type

\* GffObjectFactory::create on the object the line parsed to
create_from(obj) ==
    CASE obj.g_type = "Transcript" -> Boxed("Transcript", TranscriptFrom(obj))
      [] obj.g_type = "Exon" -> Boxed("Exon", ExonFrom(obj))
      [] obj.g_type = "CDS" ->
            Boxed("Exon", set_cds(ExonFrom(obj),
                                  Unwrap(IntervalNew(ExonFrom(obj).start,
                                                     ExonFrom(obj).end))))
      [] OTHER -> Boxed("GffObject", obj)

\* the lines given to the factory: every type text, on one interval
CreateLines ==
    { Data(9, "chr1", ty, "1", "100", "+", at) : ty \in TypeTexts, at \in AttrTexts }
        \cup { FiveCols }

\* p is what GffObject::new(line) gave
Created(line, is_gff, p) ==
    IF p.status = "ok"
    THEN ret' = Ret("create", "ok",
                    [line |-> line, is_gff |-> is_gff, g_type |-> p.obj.g_type,
                     boxed |-> create_from(p.obj),
                     get_type |-> get_type(create_from(p.obj)),
                     obj_type |-> stored_type(create_from(p.obj))])
    ELSE ret' = Ret("create", p.status, [line |-> line, is_gff |-> is_gff])

\* GffObjectFactory::create(line)
Create(line, is_gff) ==
    /\ ret.op = "new"
    /\ Created(line, is_gff, Parse(line, is_gff))
    /\ UNCHANGED << storeVars, readerVars, detectVars, parentVars >>

\* Exon::from(obj) and Transcript::from(obj) on the object a line parsed to
Converted(line, is_gff, p) ==
    /\ p.status = "ok"
    /\ ret' = Ret("from", "ok",
                  [line |-> line, is_gff |-> is_gff, g_type |-> p.obj.g_type,
                   exon |-> ExonFrom(p.obj),
                   exon_get_type |-> get_type(Boxed("Exon", ExonFrom(p.obj))),
                   transcript |-> TranscriptFrom(p.obj),
                   transcript_get_type |->
                       get_type(Boxed("Transcript", TranscriptFrom(p.obj)))])

From(line, is_gff) ==
    /\ ret.op = "new"
    /\ Converted(line, is_gff, Parse(line, is_gff))
    /\ UNCHANGED << storeVars, readerVars, detectVars, parentVars >>

\* ----------------------------------------------- Ord for GffObject and Exon
\* Ord::cmp on integers
Cmp(x, y) == IF x < y THEN "Less" ELSE IF x > y THEN "Greater" ELSE "Equal"

\* char as its code point: the strands that occur
CharCode(c) ==
    CASE c = "+" -> 43
      [] c = "-" -> 45
      [] OTHER -> 46        \* '.'

\* String::cmp is bytewise: the seqids that occur, by their place in that order
StrRank(s) ==
    CASE s = "chr1" -> 1
      [] s = "chr2" -> 2
      [] OTHER -> 0         \* the empty string

\* Ord for GffObject
gffobject_cmp(self, other) ==
    IF Cmp(StrRank(self.seqid), StrRank(other.seqid)) # "Equal"
    THEN Cmp(StrRank(self.seqid), StrRank(other.seqid))
    ELSE IF Cmp(CharCode(self.strand), CharCode(other.strand)) # "Equal"
    THEN Cmp(CharCode(self.strand), CharCode(other.strand))
    ELSE IF Cmp(self.start, other.start) # "Equal"
    THEN Cmp(self.start, other.start)
    ELSE Cmp(self.end, other.end)

\* Ord for Exon
exon_cmp(self, other) ==
    IF self.seqid # other.seqid
    THEN Cmp(StrRank(self.seqid), StrRank(other.seqid))
    ELSE IF self.strand # other.strand
    THEN Cmp(CharCode(self.strand), CharCode(other.strand))
    ELSE IF Cmp(self.end, other.end) = "Equal"
    THEN Cmp(self.end, other.end)
    ELSE Cmp(self.end, other.end)

\* the records compared: two seqids, two strands, the intervals over three
\* coordinates
OrdCoords == {100, 150, 200}
Strands == {"+", "-"}
OrdSpans == { iv \in OrdCoords \X OrdCoords : IsSome(IntervalNew(iv[1], iv[2])) }
Ordered ==
    { [seqid |-> sq, strand |-> sd, start |-> iv[1], end |-> iv[2]] :
        sq \in Seqids, sd \in Strands, iv \in OrdSpans }

\* a.cmp(&b) on two GffObjects
GffObjectCmp(a, b) ==
    /\ ret.op = "new"
    /\ ret' = Ret("gffobject_cmp", "ok", [a |-> a, b |-> b, ord |-> gffobject_cmp(a, b)])
    /\ UNCHANGED << storeVars, readerVars, detectVars, parentVars >>

\* a.cmp(&b) on two Exons
ExonCmp(a, b) ==
    /\ ret.op = "new"
    /\ ret' = Ret("exon_cmp", "ok", [a |-> a, b |-> b, ord |-> exon_cmp(a, b)])
    /\ UNCHANGED << storeVars, readerVars, detectVars, parentVars >>

\* ---------------------------------------------------- Transcript::finalize
\* Transcript::default
DefaultTranscript ==
    [seqid |-> "", strand |-> ".", start |-> 0, end |-> 0, exons |-> << >>,
     obj_type |-> "Transcript", attrs |-> EmptyMap, tid |-> None, gid |-> None]

\* the exons a transcript is given: the entries of its tree, by interval
ExonEntries == { [start |-> iv[1], end |-> iv[2]] : iv \in OrdSpans }
ExonLists == UNION { [1..n -> ExonEntries] : n \in 0..MaxExons }

\* Transcript::finalize once exons.index() has sorted the entries: first()
\* and last() of a tree without entries have nothing to return and panic
finalize_indexed(tx, sorted) ==
    IF sorted = << >> THEN [status |-> "panic", tx |-> [tx EXCEPT !.exons = sorted]]
    ELSE IF IntervalNew(sorted[1].start, sorted[Len(sorted)].end) = None
    THEN [status |-> "panic", tx |-> [tx EXCEPT !.exons = sorted]]
    ELSE [status |-> "ok",
          tx |-> [tx EXCEPT !.exons = sorted,
                            !.start = sorted[1].start,
                            !.end = sorted[Len(sorted)].end]]

\* Transcript::finalize
transcript_finalize(tx) == finalize_indexed(tx, TreeIndex(tx.exons))

\* finalize on a default transcript that holds the exons given
TranscriptFinalize(exons) ==
    /\ ret.op = "new"
    /\ LET r == transcript_finalize([DefaultTranscript EXCEPT !.exons = exons])
       IN ret' = Ret("transcript_finalize", r.status, [exons |-> exons, tx |-> r.tx])
    /\ UNCHANGED << storeVars, readerVars, detectVars, parentVars >>

NextParse ==
    \/ \E line \in ParseLines, is_gff \in BOOLEAN : TryFrom(line, is_gff)
    \/ \E attr \in AttrColumns, is_gff \in BOOLEAN : ExtractAttributes(attr, is_gff)
    \/ \E attrs \in AttrMaps, ty \in Types, is_gff \in BOOLEAN : ExtractIds(attrs, ty, is_gff)
    \/ \E a \in Features, b \in Features : OverlapsContains(a, b)
    \/ \E line \in CreateLines, is_gff \in BOOLEAN : Create(line, is_gff)
    \/ \E line \in CreateLines, is_gff \in BOOLEAN : From(line, is_gff)
    \/ \E a \in Ordered, b \in Ordered : GffObjectCmp(a, b)
    \/ \E a \in Ordered, b \in Ordered : ExonCmp(a, b)
    \/ \E exons \in ExonLists : TranscriptFinalize(exons)

SpecParse == Init /\ [][NextParse]_vars

\* ------------------------------------------ a record and its children
\* the record as it is now
Parent == heap[parent_at].obj

\* GffObject::add on the record at address `at`: the child's parent is
\* NonNull::new(self); it returns children.len() - 1
obj_add(self, at, obj) ==
    [self EXCEPT !.children = TreeInsert(@, [obj EXCEPT !.parent = Some(at)]),
                 !.indexed = FALSE]

\* GffObject::index
obj_index(self) ==
    IF ~self.indexed
    THEN [self EXCEPT !.children = TreeIndex(@), !.indexed = TRUE]
    ELSE self

\* GffObject::get
obj_get(self, id) == TreeGet(self.children, id)

\* GffObject::get_parent: every outcome of parent_ptr.as_ref().  A pointer to
\* a live cell gives the record in it.  A pointer to a dead cell is dangling:
\* the read may give the bytes the move left behind, whatever has been
\* written over them, or fault.
get_parent(self, mem) ==
    IF self.parent = None THEN { [status |-> "none", at |-> None, obj |-> None] }
    ELSE IF mem[Unwrap(self.parent)].live
    THEN { [status |-> "some", at |-> self.parent,
            obj |-> Some(mem[Unwrap(self.parent)].obj)] }
    ELSE { [status |-> "some", at |-> self.parent,
            obj |-> Some(mem[Unwrap(self.parent)].obj)],
           [status |-> "some", at |-> self.parent, obj |-> Some(Overwritten)],
           [status |-> "crash", at |-> self.parent, obj |-> None] }

Crashed == ret.status = "crash"

\* parent.add(child)
ObjAdd(child) ==
    /\ ~Crashed
    /\ Len(Parent.children) < MaxChildren
    /\ heap' = [heap EXCEPT ![parent_at].obj = obj_add(@, parent_at, child)]
    /\ ret' = Ret("obj_add", "ok", Len(Parent.children))
    /\ UNCHANGED << parent_at, storeVars, readerVars, detectVars >>

\* parent.index()
ObjIndex ==
    /\ ~Crashed
    /\ heap' = [heap EXCEPT ![parent_at].obj = obj_index(@)]
    /\ ret' = Ret("obj_index", "ok", << >>)
    /\ UNCHANGED << parent_at, storeVars, readerVars, detectVars >>

\* the record is moved, as add_object's `self.objects.insert(obj)` and add's
\* `self.children.insert(obj)` move the record they are given
Relocate ==
    /\ ~Crashed
    /\ Len(heap) <= MaxMoves
    /\ heap' = Append([heap EXCEPT ![parent_at].live = FALSE],
                      [obj |-> Parent, live |-> TRUE])
    /\ parent_at' = Len(heap) + 1
    /\ ret' = Ret("move", "ok", << >>)
    /\ UNCHANGED << storeVars, readerVars, detectVars >>

\* parent.get(id).unwrap().get_parent()
GetParent(id) ==
    /\ ~Crashed
    /\ IsSome(obj_get(Parent, id))
    /\ \E r \in get_parent(Unwrap(obj_get(Parent, id)), heap) :
          ret' = Ret("get_parent", r.status, [id |-> id, at |-> r.at, obj |-> r.obj])
    /\ UNCHANGED << parentVars, storeVars, readerVars, detectVars >>

NextParent ==
    \/ \E child \in ExonObjs : ObjAdd(child)
    \/ ObjIndex
    \/ Relocate
    \/ \E id \in 0..(MaxChildren - 1) : GetParent(id)

SpecParent == Init /\ [][NextParent]_vars

\* ================================================================ claims
Max(S) == CHOOSE x \in S : \A y \in S : y <= x

\* a record's parent identity is set and is not a key of the identity map
Dangling(obj) ==
    IsSome(obj.parent_id_str) /\ Unwrap(obj.parent_id_str) \notin DOMAIN id_map

\* ---- C1
\* the store holds the GTF transcript "test" at index 0 and the GTF exon of
\* transcript "test" at index 1, and the last call was the one finalize
C1_Scenario ==
    /\ ret.op = "finalize"
    /\ n_finalize = 1
    /\ Len(objects) = 2
    /\ objects[1] = [Parse(TxGtf, FALSE).obj EXCEPT !.id = Some(0),
                                                   !.children = objects[1].children]
    /\ objects[2] = [Parse(ExGtf, FALSE).obj EXCEPT !.id = Some(1),
                                                   !.children = objects[2].children]

\* C1: after inserting the GTF transcript and then the GTF exon (both gene_id
\* "test", transcript_id "test") and one finalize, the store holds 2 records,
\* the exon's parent identity resolves to the transcript's index, and the
\* transcript's children are exactly the exon's index.
C1_EndToEnd ==
    C1_Scenario =>
        /\ Len(objects) = 2
        /\ Unwrap(objects[2].parent_id_str) \in DOMAIN id_map
        /\ Some(id_map[Unwrap(objects[2].parent_id_str)]) = objects[1].id
        /\ objects[1].children = << Unwrap(objects[2].id) >>

\* ---- C2
\* C2: a finalize that directly follows a finalize leaves every record's
\* children as the first one left them.
C2_FinalizeTwice ==
    [][ (ret.op = "finalize" /\ ret'.op = "finalize" /\ n_finalize' = n_finalize + 1)
        => \A i \in 1..Len(objects) : objects'[i].children = objects[i].children ]_vars

\* ---- C3
\* C3: after finalize, every record whose parent identity is set but is not a
\* key of the identity map is in the dangling-parent list finalize reports,
\* once, and is nobody's child; finalize has not failed, and every record
\* whose parent identity is a key of the identity map is linked.
C3_DanglingReported ==
    ret.op = "finalize" =>
        /\ ret.status = "ok"
        /\ \A i \in 1..Len(objects) :
              (IsSome(objects[i].parent_id_str) /\ ~Dangling(objects[i])) =>
                 \E j \in 1..Len(objects) :
                    Unwrap(objects[i].id) \in Range(objects[j].children)
        /\ \A i \in 1..Len(objects) :
              Dangling(objects[i]) =>
                 /\ Cardinality({ k \in 1..Len(ret.val) :
                                     Some(ret.val[k]) = objects[i].id }) = 1
                 /\ \A j \in 1..Len(objects) :
                       Unwrap(objects[i].id) \notin Range(objects[j].children)

\* ---- C4
\* C4: the record at position i is the one add_object returned i for: its
\* assigned id is Some(i), whatever add_object and index calls came after.
C4_ArenaStable ==
    \A i \in 1..Len(objects) : objects[i].id = Some(i - 1)

\* ---- C5
IdStrs == { Unwrap(objects[i].id_str) :
              i \in { k \in 1..Len(objects) : IsSome(objects[k].id_str) } }
IdsOf(s) == { Unwrap(objects[i].id) :
                i \in { k \in 1..Len(objects) : objects[k].id_str = Some(s) } }

\* C5: the identity map has exactly the identities the inserted records carry,
\* and sends each to the index given to the last inserted record carrying it.
C5_LastWriteWins ==
    /\ DOMAIN id_map = IdStrs
    /\ \A s \in IdStrs : id_map[s] = Max(IdsOf(s))

\* two records share an identity, and one record has none
C5_Witness ==
    /\ \E s \in IdStrs : Cardinality(IdsOf(s)) >= 2 /\ id_map[s] = Max(IdsOf(s))
    /\ \E i \in 1..Len(objects) : objects[i].id_str = None

\* ---- C6
\* C6: is_indexed is true only while the store holds exactly the records the
\* last index() was built over, that is, nothing was inserted since.
C6_InsertInvalidates ==
    is_indexed => indexed_len = Some(Len(objects))

\* a record was inserted after an index() call
C6_Witness ==
    /\ IsSome(indexed_len)
    /\ Len(objects) > Unwrap(indexed_len)
    /\ ~is_indexed

\* ---- C7
\* C7: an interval query on a store that holds records is answered, and from
\* an index that was built over every record the store holds.
C7_NoStaleQuery ==
    (ret.op = "find" /\ Len(objects) > 0) =>
        /\ ret.status = "ok"
        /\ tree_indexed
        /\ indexed_len = Some(Len(objects))

\* ---- C8
\* C8: get(i) and get_mut(i) do not crash: they return the record at position
\* i, or report a failure.
C8_BoundsChecked ==
    ret.op \in {"get", "get_mut"} =>
        \/ ret.status = "err"
        \/ ret.status = "ok" /\ ret.val \in { Some(objects[i]) : i \in 1..Len(objects) }

\* ---- C9
\* the non-comment lines of reader i's file, as <<i, line>>, in file order
RECURSIVE LinesOf(_, _, _)
LinesOf(i, lines, k) ==
    IF k > Len(lines) THEN << >>
    ELSE (IF lines[k].kind # "comment" THEN << <<i, k>> >> ELSE << >>)
         \o LinesOf(i, lines, k + 1)

RECURSIVE AllLines(_)
AllLines(i) ==
    IF i > Len(readers) THEN << >>
    ELSE LinesOf(i, Files[readers[i].fname], 1) \o AllLines(i + 1)

IsPrefix(a, b) == Len(a) <= Len(b) /\ SubSeq(b, 1, Len(a)) = a

\* C9: each next() returns either the next line not yet returned, reader by
\* reader and in file order, or None once every line of every reader has
\* been returned.
C9_MergedStream ==
    ret.op = "next" =>
        \/ ret.status = "some" /\ IsPrefix(yielded, AllLines(1))
        \/ ret.status = "none" /\ yielded = AllLines(1)

\* ---- C10
\* C10: only data lines reach the record parser, and every line that reaches
\* it comes back as a record.
C10_OnlyDataParsed ==
    /\ \A k \in 1..Len(parsed) :
          Files[readers[parsed[k][1]].fname][parsed[k][2]].kind = "data"
    /\ (ret.op = "next" => yielded = parsed)

\* ---- C11
\* C11: once _set_gff has returned, with Ok or with Err, the lines already
\* read followed by the lines still to be read are the lines a fresh handle
\* on the file gives; right after _set_gff the position is the start of the
\* file.
C11_RewindRoundTrip ==
    ret.op \in {"_set_gff", "st_next"} =>
        /\ got \o ReadAll(Unwrap(streader).lines, Unwrap(streader).pos)
              = ReadAll(Unwrap(streader).lines, 0)
        /\ (ret.op = "_set_gff" => Unwrap(streader).pos = 0)

\* detection scanned a comment and a data line, and the stream has then been
\* read to its end
C11_Witness ==
    /\ ret.op = "st_next"
    /\ ret.status = "none"
    /\ ScanEnd(Unwrap(streader).lines, 1) >= 2
    /\ Len(got) >= 2
    /\ got = ReadAll(Unwrap(streader).lines, 0)

\* ---- C12
\* the type column of line i is `transcript`, in any case
IsTranscriptLine(lines, i) ==
    lines[i].kind = "data" /\ ToLowercase(lines[i].ftype) = "transcript"

\* the first transcript line of the file: Some(i) or None
FirstTranscript(lines) ==
    IF \E i \in 1..Len(lines) : IsTranscriptLine(lines, i)
    THEN Some(CHOOSE i \in 1..Len(lines) :
                 /\ IsTranscriptLine(lines, i)
                 /\ \A j \in 1..(i - 1) : ~IsTranscriptLine(lines, j))
    ELSE None

\* C12: detection succeeds exactly when the file has a transcript line, the
\* first one has 9 columns and its 9th column matches a dialect; every line
\* before it is skipped, and the dialect is the one of that line.
C12_DetectorScan ==
    ret.op = "_set_gff" =>
        LET lines == Unwrap(streader).lines
            t == FirstTranscript(lines)
        IN /\ ret.status = "ok" <=>
                 /\ IsSome(t)
                 /\ lines[Unwrap(t)].ncols = 9
                 /\ IsSome(attr_is_gff(lines[Unwrap(t)].attr))
           /\ ret.status = "ok" =>
                 Unwrap(streader).is_gff = attr_is_gff(lines[Unwrap(t)].attr)

\* ---- C13
\* C13: when the scan stops at a 9-column line of type transcript, what the
\* detector stores (GFF, GTF, or nothing with an Err) is what attr_is_gff
\* returns for that line's 9th column.
C13_SameAsRule ==
    ret.op = "_set_gff" =>
        LET lines == Unwrap(streader).lines
            k == ScanEnd(lines, 1)
        IN (/\ k >= 1
            /\ lines[k].kind = "data"
            /\ lines[k].ncols = 9
            /\ lines[k].ftype = "transcript")
           => Unwrap(streader).is_gff = attr_is_gff(lines[k].attr)

\* ---- C14
\* C14: try_from on a line that has not 9 columns returns an Err that carries
\* the text of the line, and no record.
C14_ColumnCountErr ==
    (ret.op = "try_from" /\ (ret.val.line.kind # "data" \/ ret.val.line.ncols # 9)) =>
        /\ ret.status = "err"
        /\ ret.val.res.line = Some(ret.val.line)
        /\ "obj" \notin DOMAIN ret.val.res

\* a line of 8 columns has been refused
C14_Witness ==
    /\ ret.op = "try_from"
    /\ ret.val.line.kind = "data"
    /\ ret.val.line.ncols = 8
    /\ ret.status = "err"

\* ---- C15
\* a 9-column line whose start or end is no unsigned integer, whose start is
\* greater than its end, or whose strand column is empty
BadCoordsOrStrand(line) ==
    /\ line.kind = "data"
    /\ line.ncols = 9
    /\ \/ ParseUsize(line.start) = None
       \/ ParseUsize(line.end) = None
       \/ Unwrap(ParseUsize(line.start)) > Unwrap(ParseUsize(line.end))
       \/ line.strand = ""

\* C15: try_from on a 9-column line with a bad coordinate or an empty strand
\* returns an Err to its caller, and no record.
C15_BadCoordsErr ==
    (ret.op = "try_from" /\ BadCoordsOrStrand(ret.val.line)) =>
        /\ ret.status = "err"
        /\ "obj" \notin DOMAIN ret.val.res

\* ---- C16
\* the vocabulary, matched whatever the case of the type column
Vocabulary(text) ==
    CASE text \in {"gene", "Gene"} -> "Gene"
      [] text \in {"transcript", "mRNA"} -> "Transcript"
      [] text \in {"exon", "EXON"} -> "Exon"
      [] text = "CDS" -> "CDS"
      [] text = "UTR" -> "UTR"
      [] text = "Intron" -> "Intron"
      [] text = "intergenic" -> "Intergenic"
      [] OTHER -> "Unknown"

\* the number a coordinate text writes
Decimal(text) == CASE text = "1" -> 1 [] text = "100" -> 100

ValidLine(line) ==
    /\ line.kind = "data"
    /\ line.ncols = 9
    /\ line.start \in {"1", "100"}
    /\ line.end \in {"1", "100"}
    /\ Decimal(line.start) <= Decimal(line.end)
    /\ line.strand \in {"+", "-", "."}

\* C16: try_from on a valid 9-column line with start <= end gives a record
\* whose seqid, strand, start and end are the line's, and whose type is the
\* vocabulary's for the type column (Unknown for a type outside it).
C16_ParseRoundTrip ==
    (ret.op = "try_from" /\ ValidLine(ret.val.line)) =>
        /\ ret.status = "ok"
        /\ ret.val.res.obj.seqid = ret.val.line.seqid
        /\ ret.val.res.obj.strand = ret.val.line.strand
        /\ ret.val.res.obj.start = Decimal(ret.val.line.start)
        /\ ret.val.res.obj.end = Decimal(ret.val.line.end)
        /\ ret.val.res.obj.g_type = Vocabulary(ret.val.line.ftype)

\* an mRNA line with start < end has been parsed into a Transcript
C16_Witness ==
    /\ ret.op = "try_from"
    /\ ret.status = "ok"
    /\ ret.val.line.ftype = "mRNA"
    /\ ret.val.line.start = "1"
    /\ ret.val.line.end = "100"
    /\ ret.val.res.obj.g_type = "Transcript"

\* ---- C17
\* the segments of a column that are pairs in the dialect
WellFormed(attr, is_gff) ==
    { i \in 1..Len(attr) : attr[i].sep = (IF is_gff THEN "=" ELSE " ") }

\* the value of a pair: in GTF without its quotes, in GFF as it stands
PairValue(seg, is_gff) == IF is_gff THEN RawVal(seg) ELSE seg.val

GffValue(attr, key) ==
    IF \E i \in 1..Len(attr) : attr[i].sep = "=" /\ attr[i].key = key
    THEN Some((CHOOSE seg \in Range(attr) : seg.sep = "=" /\ seg.key = key).val)
    ELSE None

\* C18: the record of a GFF gene line answers get_attr("gene_id") with the
\* value of its ID=; the record of a GFF transcript line answers
\* get_attr("transcript_id") with its ID= and get_attr("gene_id") with its
\* Parent=.
C18_GffKeyRenaming ==
    (ret.op = "try_from" /\ ret.status = "ok" /\ ret.val.is_gff) =>
        LET obj == ret.val.res.obj
            attr == ret.val.line.attr
        IN /\ (obj.g_type = "Gene" /\ IsSome(GffValue(attr, "ID")))
                 => get_attr(obj, "gene_id") = GffValue(attr, "ID")
           /\ (obj.g_type = "Transcript" /\ IsSome(GffValue(attr, "ID")))
                 => get_attr(obj, "transcript_id") = GffValue(attr, "ID")
           /\ (obj.g_type = "Transcript" /\ IsSome(GffValue(attr, "Parent")))
                 => get_attr(obj, "gene_id") = GffValue(attr, "Parent")

\* ---- C19
\* the value a map has for a key: Some(value), or None for a missing key
Lookup(attrs, key) == IF key \in DOMAIN attrs THEN << attrs[key] >> ELSE << >>

\* C19: the identity and the parent identity resolved from a map follow the
\* rule table: GFF reads id and parent for every type; GTF reads gene_id and
\* nothing for a Gene, transcript_id and gene_id for a Transcript, nothing
\* and transcript_id for an Exon, CDS, UTR or Intron.
C19_IdentityTable ==
    ret.op = "extract_ids" =>
        LET v == ret.val IN
        IF v.is_gff
        THEN v.id = Lookup(v.attrs, "id") /\ v.parent = Lookup(v.attrs, "parent")
        ELSE /\ v.feature_type = "Gene" =>
                   v.id = Lookup(v.attrs, "gene_id") /\ v.parent = << >>
             /\ v.feature_type = "Transcript" =>
                   /\ v.id = Lookup(v.attrs, "transcript_id")
                   /\ v.parent = Lookup(v.attrs, "gene_id")
             /\ v.feature_type \in {"Exon", "CDS", "UTR", "Intron"} =>
                   v.id = << >> /\ v.parent = Lookup(v.attrs, "transcript_id")

\* a GTF transcript with both keys has its own id and its gene as parent
C19_Witness ==
    /\ ret.op = "extract_ids"
    /\ ~ret.val.is_gff
    /\ ret.val.feature_type = "Transcript"
    /\ ret.val.id = << "transcript_id_value" >>
    /\ ret.val.parent = << "gene_id_value" >>

\* ---- C20
Min(S) == CHOOSE x \in S : \A y \in S : x <= y

\* the records a record's children are, by index
ChildrenOf(obj) == { objects[c + 1] : c \in Range(obj.children) }

\* C20: after reset_intervals on a store whose hierarchy finalize has built
\* (and that index() has not reordered), every record that has children
\* starts at the least start of its children and ends at their greatest end.
C20_ParentsSpanChildren ==
    (ret.op = "reset_intervals" /\ n_finalize >= 1 /\ indexed_len = None) =>
        \A i \in 1..Len(objects) :
            objects[i].children # << >> =>
                /\ objects[i].start = Min({ c.start : c \in ChildrenOf(objects[i]) })
                /\ objects[i].end = Max({ c.end : c \in ChildrenOf(objects[i]) })

\* ---- C21
\* how many of the lines from position i on parse, up to the first that does not
RECURSIVE GoodPrefixLen(_, _, _)
GoodPrefixLen(lines, is_gff, i) ==
    IF i > Len(lines) THEN 0
    ELSE IF Parse(lines[i], is_gff).status # "ok" THEN 0
    ELSE 1 + GoodPrefixLen(lines, is_gff, i + 1)

\* the file opens, its dialect is detected, and one of its lines fails parsing
HasBadLine(fname) ==
    /\ IsSome(STReaderNew(fname))
    /\ GoodPrefixLen(NonComment(fname), Unwrap(STReaderNew(fname)).is_gff, 1)
          < Len(NonComment(fname))

\* C21: from_file and add_from_file on a file with a line that fails parsing
\* return an error; add_from_file leaves the records it held, followed by one
\* record for each line before the failing one and none for that line, and
\* leaves is_indexed = false.
C21_ParseFailureAborts ==
    [][ \A fname \in FileNames :
          /\ (HasBadLine(fname) /\ FromFile(fname)) => ret'.status = "err"
          /\ (HasBadLine(fname) /\ AddFromFile(fname)) =>
                /\ ret'.status = "err"
                /\ is_indexed' = FALSE
                /\ IsPrefix(objects, objects')
                /\ Len(objects') = Len(objects)
                      + GoodPrefixLen(NonComment(fname),
                                      Unwrap(STReaderNew(fname)).is_gff, 1) ]_vars

\* ---- C22
\* C22: TReader::add of a file whose format cannot be determined returns an
\* error and leaves the list of file names and the list of readers as they
\* were before the call.
C22_FailedAddLeavesReader ==
    [][ \A fname \in DOMAIN Files :
          (_set_gff(Files[fname]) = None /\ TReaderAdd(fname)) =>
             /\ ret'.status = "err"
             /\ fnames' = fnames
             /\ readers' = readers ]_vars

\* ---- C23
\* C23: a overlaps b exactly when they share seqid and a.start <= b.end and
\* a.end >= b.start, the same both ways round; a contains b exactly when they
\* share seqid and a.start <= b.start and a.end >= b.end; a containment is an
\* overlap; [100,200] overlaps [150,250], and contains [120,180] but is not
\* contained in it.
C23_OverlapContain ==
    ret.op = "overlaps" =>
        LET a == ret.val.a
            b == ret.val.b
        IN /\ ret.val.a_overlaps_b
                 <=> (a.seqid = b.seqid /\ a.start <= b.end /\ a.end >= b.start)
           /\ ret.val.a_overlaps_b <=> ret.val.b_overlaps_a
           /\ ret.val.a_contains_b
                 <=> (a.seqid = b.seqid /\ a.start <= b.start /\ a.end >= b.end)
           /\ ret.val.a_contains_b => ret.val.a_overlaps_b
           /\ (a.seqid = b.seqid /\ <<a.start, a.end>> = <<100, 200>>
                 /\ <<b.start, b.end>> = <<150, 250>>) => ret.val.a_overlaps_b
           /\ (a.seqid = b.seqid /\ <<a.start, a.end>> = <<100, 200>>
                 /\ <<b.start, b.end>> = <<120, 180>>)
                 => (ret.val.a_contains_b /\ ~ret.val.b_contains_a)

\* gene1 at [100,200] against exon1 at [150,250] on chr1: they overlap and
\* neither contains the other
C23_Witness ==
    /\ ret.op = "overlaps"
    /\ ret.val.a = [seqid |-> "chr1", start |-> 100, end |-> 200]
    /\ ret.val.b = [seqid |-> "chr1", start |-> 150, end |-> 250]
    /\ ret.val.a_overlaps_b /\ ret.val.b_overlaps_a
    /\ ~ret.val.a_contains_b /\ ~ret.val.b_contains_a

\* ---- C24
\* C24: get_parent() of a child of the record resolves to the cell the record
\* lives in now and gives the record as it is now, whatever add, index() and
\* moves of the record came after the child was added.
C24_ParentLookupValid ==
    ret.op = "get_parent" =>
        /\ ret.status = "some"
        /\ ret.val.at = Some(parent_at)
        /\ ret.val.obj = Some(Parent)

\* ---- C25
\* the members of a set of numbers, in increasing order
RECURSIVE Increasing(_)
Increasing(S) ==
    IF S = {} THEN << >>
    ELSE << Min(S) >> \o Increasing(S \ { Min(S) })

\* the indices of the records whose parent identity the identity map
\* resolves to index p
ResolvesTo(p) ==
    { i - 1 : i \in { k \in 1..Len(objects) :
                        /\ IsSome(objects[k].parent_id_str)
                        /\ Unwrap(objects[k].parent_id_str) \in DOMAIN id_map
                        /\ id_map[Unwrap(objects[k].parent_id_str)] = p } }

\* C25: after the first finalize on a store that index() has not reordered,
\* each record's children are the indices of exactly the records whose
\* parent identity resolves to it, in increasing order, each once.
C25_ChildOrdering ==
    (ret.op = "finalize" /\ n_finalize = 1 /\ indexed_len = None) =>
        \A p \in 1..Len(objects) :
            objects[p].children = Increasing(ResolvesTo(p - 1))

\* the first finalize has given a record two children that are not itself
C25_Witness ==
    /\ ret.op = "finalize" /\ n_finalize = 1 /\ indexed_len = None
    /\ \E p \in 1..Len(objects) :
          /\ Len(objects[p].children) = 2
          /\ (p - 1) \notin Range(objects[p].children)

\* ---- C26
\* the indices in the children list of the record with index c
Kids(c) == IF c < Len(objects) THEN Range(objects[c + 1].children) ELSE {}

\* S and everything reached from it along children lists in up to n steps
RECURSIVE ReachedFrom(_, _)
ReachedFrom(S, n) ==
    IF n = 0 THEN S
    ELSE ReachedFrom(S \cup UNION { Kids(c) : c \in S }, n - 1)

Descendants(i) == ReachedFrom(Kids(i), Len(objects))

\* C26: once finalize has run, no record's index is in its own children list
\* and no record is among its own descendants.
C26_Acyclic ==
    n_finalize >= 1 =>
        \A i \in 0..(Len(objects) - 1) :
            /\ i \notin Kids(i)
            /\ i \notin Descendants(i)

\* ---- C27
\* C27: finalize returns Ok and changes nothing but children lists: the
\* number of records, every record's fields other than children (its assigned
\* index, interval and identities among them), the identity map and
\* is_indexed are as they were before the call.
C27_FinalizeFrame ==
    [][ (ret'.op = "finalize" /\ n_finalize' = n_finalize + 1) =>
           /\ ret'.status = "ok"
           /\ Len(objects') = Len(objects)
           /\ \A i \in 1..Len(objects) :
                 [objects'[i] EXCEPT !.children = objects[i].children] = objects[i]
           /\ id_map' = id_map
           /\ is_indexed' = is_indexed ]_vars

\* finalize has run on an indexed store and has given a record a child
C27_Witness ==
    /\ ret.op = "finalize"
    /\ ret.status = "ok"
    /\ is_indexed
    /\ \E i \in 1..Len(objects) : objects[i].children # << >>

\* ---- C28
\* C28: the object GffObjectFactory::create returns for a line reports, both
\* through get_type() and through the type it stores, the feature type the
\* parser derived from the line's type column; Exon::from on a parsed exon
\* line gives an Exon that reports Exon, Transcript::from on a parsed
\* transcript line gives a Transcript that reports Transcript.
C28_TypePreserved ==
    /\ (ret.op = "create" /\ ret.status = "ok") =>
          /\ ret.val.g_type = TypeOf(ret.val.line.ftype)
          /\ ret.val.get_type = ret.val.g_type
          /\ ret.val.obj_type = ret.val.g_type
    /\ (ret.op = "from" /\ ret.val.g_type = "Exon") =>
          /\ ret.val.exon.obj_type = "Exon"
          /\ ret.val.exon_get_type = "Exon"
    /\ (ret.op = "from" /\ ret.val.g_type = "Transcript") =>
          /\ ret.val.transcript.obj_type = "Transcript"
          /\ ret.val.transcript_get_type = "Transcript"

\* ---- C29
\* the order of two records by seqid, then strand, then start, then end
ByKeys(a, b) ==
    LET ka == << StrRank(a.seqid), CharCode(a.strand), a.start, a.end >>
        kb == << StrRank(b.seqid), CharCode(b.strand), b.start, b.end >>
    IN IF ka = kb THEN "Equal"
       ELSE LET d == CHOOSE i \in 1..4 :
                        ka[i] # kb[i] /\ \A j \in 1..(i - 1) : ka[j] = kb[j]
            IN IF ka[d] < kb[d] THEN "Less" ELSE "Greater"

\* C29: two GffObjects compare by seqid, then strand, then interval start,
\* then interval end; two Exons on the same seqid and strand whose intervals
\* differ, in start or in end, do not compare as Equal.
C29_OrderConsistent ==
    /\ ret.op = "gffobject_cmp" => ret.val.ord = ByKeys(ret.val.a, ret.val.b)
    /\ (/\ ret.op = "exon_cmp"
        /\ ret.val.a.seqid = ret.val.b.seqid
        /\ ret.val.a.strand = ret.val.b.strand
        /\ << ret.val.a.start, ret.val.a.end >> # << ret.val.b.start, ret.val.b.end >>)
          => ret.val.ord # "Equal"

\* ---- C30
\* C30: Transcript::finalize does not crash, and on a transcript that has
\* exons it leaves the interval [least exon start, greatest exon end].
C30_TranscriptSpansExons ==
    ret.op = "transcript_finalize" =>
        /\ ret.status = "ok"
        /\ ret.val.exons # << >> =>
              /\ ret.val.tx.start = Min({ e.start : e \in Range(ret.val.exons) })
              /\ ret.val.tx.end = Max({ e.end : e \in Range(ret.val.exons) })

====
